---------------------------- MODULE Spec2Model ----------------------------
(***************************************************************************)
(* A model of TeleLite's update-dispatch core (src/TeleLite/bot.py): the   *)
(* update classifier, the reserved-key rewrite, the filter algebra, the    *)
(* handler registry and dispatcher, the webhook endpoint, the polling loop *)
(* and the background event loop that runs coroutine handlers.             *)
(***************************************************************************)
EXTENDS Integers, Sequences, FiniteSets, TLC

VARIABLES
    \* classifier run (Bot._extract_update_type on a mapping payload)
    cpayload, cresult,
    \* reserved-key rewrite run (Bot._fix_reserved_keys)
    nval, nout, nout2, npc,
    \* filter evaluation run (the __call__ of the filter classes)
    ffilt, fbody, fres, fraised,
    \* command filter run (the func of Filters.command): the names given to
    \* command(), the body (its text, caption and their entities), the result
    kcmds, kbody, kres,
    \* the bot: self.handlers, and the pass of _process_handlers each thread
    \* is in (its update_type, data, the list(...) copy it iterates, its place)
    handlers, disp,
    \* per thread, the handler invocations of its current pass, in order
    calls,
    \* the background event loop: the coroutines handed to it that it has
    \* not started yet, oldest first
    loopQueue,
    \* the webhook request thread: its place, the parsed payload, the status
    \* of its last response (0: none yet, 500: the view raised)
    wpc, wreq, wstatus,
    \* the polling thread: its place, the cursor, the offset of the last
    \* request, the update of the batch it is at and that update's position,
    \* the update_ids it has been through, the failure of the current round
    ppc, offset, sentOffset, upd, bidx, seen, failure

cvars == <<cpayload, cresult>>
nvars == <<nval, nout, nout2, npc>>
fvars == <<ffilt, fbody, fres, fraised>>
kvars == <<kcmds, kbody, kres>>
wvars == <<wpc, wreq, wstatus>>
pvars == <<ppc, offset, sentOffset, upd, bidx, seen, failure>>
bvars == <<handlers, disp, calls, loopQueue, wvars, pvars>>
vars == <<cvars, nvars, fvars, kvars, bvars>>
\* what a classifier run, a rewrite run, a filter run, a command filter run
\* and the bot leave alone
xc == <<nvars, fvars, kvars, bvars>>
xn == <<cvars, fvars, kvars, bvars>>
xf == <<cvars, nvars, kvars, bvars>>
xk == <<cvars, nvars, fvars, bvars>>
xb == <<cvars, nvars, fvars, kvars>>

(***************************************************************************)
(* JSON values.  Every value is a record of the same shape; a mapping      *)
(* keeps its keys in insertion order (keys[i] maps to kids[i]), as a       *)
(* Python dict does.                                                       *)
(***************************************************************************)
JNull == [t |-> "null", i |-> 0, s |-> "", keys |-> <<>>, kids |-> <<>>]
JBool(b) == [t |-> "bool", i |-> IF b THEN 1 ELSE 0, s |-> "", keys |-> <<>>, kids |-> <<>>]
JInt(n) == [t |-> "int", i |-> n, s |-> "", keys |-> <<>>, kids |-> <<>>]
JStr(x) == [t |-> "str", i |-> 0, s |-> x, keys |-> <<>>, kids |-> <<>>]
JList(vs) == [t |-> "list", i |-> 0, s |-> "", keys |-> <<>>, kids |-> vs]
JDict(ks, vs) == [t |-> "dict", i |-> 0, s |-> "", keys |-> ks, kids |-> vs]

IsDict(v) == v.t = "dict"
IsList(v) == v.t = "list"

\* k in d, for a mapping d
HasKey(d, k) == \E j \in 1..Len(d.keys) : d.keys[j] = k

KeyIndex(d, k) == CHOOSE j \in 1..Len(d.keys) : d.keys[j] = k

\* d[k], for a mapping d that has k
GetItem(d, k) == d.kids[KeyIndex(d, k)]

\* d.get(k, default)
DictGet(d, k, default) == IF HasKey(d, k) THEN GetItem(d, k) ELSE default

\* d[k] = v: an existing key keeps its place, a new key goes last
SetItem(d, k, v) ==
    IF HasKey(d, k)
    THEN JDict(d.keys, [d.kids EXCEPT ![KeyIndex(d, k)] = v])
    ELSE JDict(Append(d.keys, k), Append(d.kids, v))

\* d without k (the mapping left by d.pop(k))
DelItem(d, k) ==
    LET keep == {j \in 1..Len(d.keys) : d.keys[j] # k}
        F[j \in 0..Len(d.keys)] ==
            IF j = 0 THEN <<>>
            ELSE IF j \in keep THEN Append(F[j - 1], j) ELSE F[j - 1]
        idx == F[Len(d.keys)]
    IN JDict([j \in 1..Len(idx) |-> d.keys[idx[j]]],
             [j \in 1..Len(idx) |-> d.kids[idx[j]]])

\* Python truthiness of a JSON value (None, 0, False, "", [], {} are falsy)
Truthy(v) ==
    CASE v.t = "null" -> FALSE
      [] v.t = "bool" -> v.i = 1
      [] v.t = "int" -> v.i # 0
      [] v.t = "str" -> v.s # ""
      [] OTHER -> Len(v.kids) > 0

(***************************************************************************)
(* The update kinds, in the order of the source list.                     *)
(***************************************************************************)
update_types ==
    << "message", "edited_message", "channel_post", "edited_channel_post",
       "business_connection", "business_message", "edited_business_message",
       "deleted_business_messages", "message_reaction", "message_reaction_count",
       "inline_query", "chosen_inline_result", "callback_query", "shipping_query",
       "pre_checkout_query", "purchased_paid_media", "poll", "poll_answer",
       "my_chat_member", "chat_member", "chat_join_request", "chat_boost",
       "removed_chat_boost" >>

Kinds == {update_types[j] : j \in 1..Len(update_types)}

\* results of the classifier that are not a kind
NoKind == "None"
RaisesTypeError == "TypeError"
RaisesAttributeError == "AttributeError"

\* `ut in update`: key membership for a mapping, element membership for a
\* list, substring for a string (the string payloads of the model are the
\* empty string, a kind name that contains no other kind name, and a string
\* that contains no kind name: for these, containment is equality), and a
\* TypeError for None, a number or a boolean.
InRaises(update) == update.t \in {"null", "bool", "int"}

InTest(ut, update) ==
    CASE update.t = "dict" -> HasKey(update, ut)
      [] update.t = "list" -> \E j \in 1..Len(update.kids) : update.kids[j] = JStr(ut)
      [] update.t = "str" -> update.s = ut
      [] OTHER -> FALSE

\* the loop of _extract_update_type from position j of update_types on
RECURSIVE ScanFrom(_, _)
ScanFrom(update, j) ==
    IF j > Len(update_types) THEN NoKind
    ELSE IF InRaises(update) THEN RaisesTypeError
    ELSE IF InTest(update_types[j], update) THEN update_types[j]
    ELSE ScanFrom(update, j + 1)

\* the classifier scanning from the last kind backwards (a wrong order)
RECURSIVE ScanBack(_, _)
ScanBack(update, j) ==
    IF j < 1 THEN NoKind
    ELSE IF InRaises(update) THEN RaisesTypeError
    ELSE IF InTest(update_types[j], update) THEN update_types[j]
    ELSE ScanBack(update, j - 1)

extract_update_type_reversed(update) == ScanBack(update, Len(update_types))

extract_update_type(update) == ScanFrom(update, 1)

(***************************************************************************)
(* The reserved-key rewrite.                                               *)
(***************************************************************************)
\* `if "from" in data: data["from_user"] = data.pop("from")`
RenameFrom(d) ==
    IF HasKey(d, "from")
    THEN SetItem(DelItem(d, "from"), "from_user", GetItem(d, "from"))
    ELSE d

\* the rewrite without its branch for sequences
RECURSIVE fix_reserved_keys_no_lists(_)
fix_reserved_keys_no_lists(data) ==
    IF IsDict(data)
    THEN LET r == RenameFrom(data)
             val(v) == IF IsDict(v) THEN fix_reserved_keys_no_lists(v) ELSE v
         IN JDict(r.keys, [j \in 1..Len(r.kids) |-> val(r.kids[j])])
    ELSE data

\* the rewrite descending only into the entries the mapping had before the
\* rename: the value moved under from_user is left as it was
RECURSIVE fix_reserved_keys_stale_items(_)
fix_reserved_keys_stale_items(data) ==
    IF IsDict(data)
    THEN LET r == RenameFrom(data)
             elem(e) == IF IsDict(e) THEN fix_reserved_keys_stale_items(e) ELSE e
             val(v) == IF IsDict(v) THEN fix_reserved_keys_stale_items(v)
                       ELSE IF IsList(v)
                            THEN JList([j \in 1..Len(v.kids) |-> elem(v.kids[j])])
                            ELSE v
             moved(j) == HasKey(data, "from") /\ r.keys[j] = "from_user"
         IN JDict(r.keys, [j \in 1..Len(r.kids) |->
                              IF moved(j) THEN r.kids[j] ELSE val(r.kids[j])])
    ELSE data

\* op(v), the argument v being evaluated once
Once(v, op(_)) == CHOOSE y \in {op(x) : x \in {v}} : TRUE

RECURSIVE fix_reserved_keys(_)
fix_reserved_keys(data) ==
    LET elem(e) == IF IsDict(e) THEN fix_reserved_keys(e) ELSE e
        val(v) == IF IsDict(v) THEN fix_reserved_keys(v)
                  ELSE IF IsList(v)
                       THEN JList([j \in 1..Len(v.kids) |-> elem(v.kids[j])])
                       ELSE v
        items(r) == JDict(r.keys, [j \in 1..Len(r.kids) |-> Once(r.kids[j], val)])
        fix(d) == IF IsDict(d) THEN Once(RenameFrom(d), items) ELSE d
    IN Once(data, fix)

(***************************************************************************)
(* Filters.  A filter is None, a declarative mapping, or a callable: a     *)
(* FilterBase object (FilterBase itself, a FilterWrapper around a          *)
(* predicate, an AndFilter, OrFilter or NotFilter) or a bare predicate.    *)
(* A call ends in "T" (a truthy result), "F" (a falsy one) or "E" (an      *)
(* exception leaves the call).                                             *)
(***************************************************************************)
NoSub == <<>>
FNone == [op |-> "none", fn |-> "", vals |-> {}, d |-> JNull, sub |-> NoSub]
FDict(d) == [op |-> "dict", fn |-> "", vals |-> {}, d |-> d, sub |-> NoSub]
FBase == [op |-> "base", fn |-> "", vals |-> {}, d |-> JNull, sub |-> NoSub]
\* FilterWrapper(func)
FWrap(fn, vals) == [op |-> "wrap", fn |-> fn, vals |-> vals, d |-> JNull, sub |-> NoSub]
\* a predicate used as a filter without a wrapper
FRaw(fn) == [op |-> "raw", fn |-> fn, vals |-> {}, d |-> JNull, sub |-> NoSub]
FAnd(f1, f2) == [op |-> "and", fn |-> "", vals |-> {}, d |-> JNull, sub |-> <<f1, f2>>]
FOr(f1, f2) == [op |-> "or", fn |-> "", vals |-> {}, d |-> JNull, sub |-> <<f1, f2>>]
FNot(f) == [op |-> "not", fn |-> "", vals |-> {}, d |-> JNull, sub |-> <<f>>]

\* filters.text(texts...)
FText(texts) == FWrap("text", texts)

IsCallable(f) == f.op \notin {"none", "dict"}

\* txt = update.get("text") or update.get("caption"), for a mapping update
TextOrCaption(update) ==
    LET a == DictGet(update, "text", JNull)
    IN IF Truthy(a) THEN a ELSE DictGet(update, "caption", JNull)

\* the predicate func of filters.text(texts...)
TextFunc(valid_texts, update) ==
    IF ~IsDict(update) THEN "E"
    ELSE LET txt == TextOrCaption(update)
         IN IF txt = JNull THEN "F"
            ELSE IF valid_texts = {} THEN "T"
            ELSE IF txt.t \in {"list", "dict"} THEN "E"
            ELSE IF txt.t = "str" /\ txt.s \in valid_texts THEN "T" ELSE "F"

\* the predicates of the model: the func of filters.text, and two
\* predicates of the caller, one that returns True and one that raises
PredCall(fn, vals, update) ==
    CASE fn = "text" -> TextFunc(vals, update)
      [] fn = "yes" -> "T"
      [] fn = "boom" -> "E"

\* FilterWrapper.__call__ on the outcome r of its predicate
WrapCall(r) == IF r = "E" THEN "F" ELSE r

\* NotFilter.__call__ on the outcome r of calling its operand
NotCall(r) == IF r = "T" THEN "F" ELSE IF r = "F" THEN "T" ELSE "F"

\* AndFilter.__call__: f2 is called only when f1 is truthy
AndCall(r1, r2) ==
    IF r1 = "E" THEN "F" ELSE IF r1 = "F" THEN "F"
    ELSE IF r2 = "E" THEN "F" ELSE r2

\* an OrFilter true when exactly one operand is
OrCallExclusive(r1, r2) ==
    IF r1 = "E" \/ r2 = "E" THEN "F" ELSE IF r1 # r2 THEN "T" ELSE "F"

\* OrFilter.__call__: f2 is called only when f1 is falsy
OrCall(r1, r2) ==
    IF r1 = "E" THEN "F" ELSE IF r1 = "T" THEN "T"
    ELSE IF r2 = "E" THEN "F" ELSE r2

\* f(update) for a callable filter f
RECURSIVE Call(_, _)
Call(f, update) ==
    CASE f.op = "base" -> "T"
      [] f.op = "wrap" -> WrapCall(PredCall(f.fn, f.vals, update))
      [] f.op = "raw" -> PredCall(f.fn, f.vals, update)
      [] f.op = "and" -> AndCall(Call(f.sub[1], update), Call(f.sub[2], update))
      [] f.op = "or" -> OrCall(Call(f.sub[1], update), Call(f.sub[2], update))
      [] f.op = "not" -> NotCall(Call(f.sub[1], update))
      [] OTHER -> "E"

\* whether some predicate raises while f(update) is evaluated
RECURSIVE Raised(_, _)
Raised(f, update) ==
    CASE f.op \in {"wrap", "raw"} -> PredCall(f.fn, f.vals, update) = "E"
      [] f.op = "and" -> \/ Raised(f.sub[1], update)
                         \/ Call(f.sub[1], update) = "T" /\ Raised(f.sub[2], update)
      [] f.op = "or" -> \/ Raised(f.sub[1], update)
                        \/ Call(f.sub[1], update) = "F" /\ Raised(f.sub[2], update)
      [] f.op = "not" -> Raised(f.sub[1], update)
      [] OTHER -> FALSE

(***************************************************************************)
(* Declarative filters.                                                    *)
(***************************************************************************)
\* a == b for two JSON values as Python compares them: numbers and
\* booleans by value, sequences element by element, mappings key by key
RECURSIVE PyEq(_, _)
PyEq(a, b) ==
    IF a.t \in {"int", "bool"} /\ b.t \in {"int", "bool"} THEN a.i = b.i
    ELSE IF a.t # b.t THEN FALSE
    ELSE IF a.t = "list"
    THEN /\ Len(a.kids) = Len(b.kids)
         /\ \A j \in 1..Len(a.kids) : PyEq(a.kids[j], b.kids[j])
    ELSE IF a.t = "dict"
    THEN /\ {a.keys[j] : j \in 1..Len(a.keys)} = {b.keys[j] : j \in 1..Len(b.keys)}
         /\ \A j \in 1..Len(a.keys) : PyEq(a.kids[j], GetItem(b, a.keys[j]))
    ELSE a = b

\* the mapping branch comparing every value with !=, a mapping too
MatchMappingShallow(item, filt) ==
    /\ IsDict(filt) /\ IsDict(item)
    /\ \A j \in 1..Len(filt.keys) :
          HasKey(item, filt.keys[j]) /\ PyEq(GetItem(item, filt.keys[j]), filt.kids[j])

\* the mapping branch of match_filter, for a JSON value filt
RECURSIVE MatchMapping(_, _)
MatchMapping(item, filt) ==
    /\ IsDict(filt) /\ IsDict(item)
    /\ \A j \in 1..Len(filt.keys) :
          LET k == filt.keys[j]
              v == filt.kids[j]
          IN /\ HasKey(item, k)
             /\ IF IsDict(v) THEN MatchMapping(GetItem(item, k), v)
                ELSE PyEq(GetItem(item, k), v)

\* match_filter(item, filt): "T", "F", as Call
match_filter(item, filt) ==
    IF filt.op = "none" THEN "T"
    ELSE IF IsCallable(filt) THEN (IF Call(filt, item) = "T" THEN "T" ELSE "F")
    ELSE IF MatchMapping(item, filt.d) THEN "T" ELSE "F"

(***************************************************************************)
(* Filters.command.  A string is the sequence of its characters; a body    *)
(* is its text, caption, entities and caption_entities, an absent or null  *)
(* one being the empty string or list the code reads it as.                *)
(***************************************************************************)
Chars == {"/", "s", "@", "x"}

StartsWithSlash(str) == Len(str) > 0 /\ str[1] = "/"

\* the set valid_cmds built from the arguments of command()
valid_cmds(commands) ==
    UNION { IF StartsWithSlash(cmd) THEN {cmd} ELSE {<<"/">> \o cmd, cmd} :
            cmd \in commands }

\* text[0:n]
Slice(text, n) == SubSeq(text, 1, IF n < Len(text) THEN n ELSE Len(text))

\* command_text.split("@")[0] when "@" is in command_text
BeforeAt(str) ==
    LET ats == {j \in 1..Len(str) : str[j] = "@"}
    IN IF ats = {} THEN str
       ELSE SubSeq(str, 1, (CHOOSE j \in ats : \A l \in ats : j <= l) - 1)

\* an element of the entities list: a mapping with type, offset and length,
\* or something that is no mapping
Entity(type, off, length) == [t |-> "dict", type |-> type, offset |-> off, length |-> length]
NotAnEntity == [t |-> "int", type |-> "", offset |-> 0, length |-> 0]

CommandBody(text, caption, entities, caption_entities) ==
    [text |-> text, caption |-> caption,
     entities |-> entities, caption_entities |-> caption_entities]

\* update.get("text", "") or update.get("caption", "")
BodyText(update) == IF update.text # <<>> THEN update.text ELSE update.caption

\* update.get("entities", []) or update.get("caption_entities", [])
BodyEntityList(update) ==
    IF update.entities # <<>> THEN update.entities ELSE update.caption_entities

\* the for loop over the entities from position j on: "T" when an entity
\* gives a valid command, "E" when e.get raises, "F" when the loop ends
RECURSIVE EntityLoop(_, _, _, _)
EntityLoop(entities, j, text, valid) ==
    IF j > Len(entities) THEN "F"
    ELSE LET e == entities[j]
         IN IF e.t # "dict" THEN "E"
            ELSE IF /\ e.type = "bot_command" /\ e.offset = 0
                    /\ BeforeAt(Slice(text, e.length)) \in valid
            THEN "T"
            ELSE EntityLoop(entities, j + 1, text, valid)

\* the predicate func of filters.command(commands...)
CommandFunc(valid, update) ==
    LET text == BodyText(update)
        looped == EntityLoop(BodyEntityList(update), 1, text, valid)
    IN IF text = <<>> THEN "F"
       ELSE IF looped # "F" THEN looped
       ELSE IF text \in valid THEN "T"
       ELSE IF \E cmd \in valid : StartsWithSlash(cmd) /\ text = cmd THEN "T"
       ELSE "F"

(***************************************************************************)
(* Bounds of the model.                                                    *)
(***************************************************************************)
\* most top-level keys of a payload handed to the classifier
MaxKeys == 2
\* most nodes (mappings, sequences, scalars) of a value handed to the rewrite
MaxNodes == 6
\* most combinators (AND, OR, NOT) of a filter that is evaluated
MaxOps == 2
\* most (filter, handler) pairs registered in all
MaxHandlers == 2
\* most coroutines the event loop holds unstarted when a webhook request is taken
MaxBacklog == 1
\* largest update_id the getUpdates responses carry
MaxUpdateId == 2
\* most updates in the result of one getUpdates response
MaxBatch == 2
\* most characters of the text of a body given to the command filter
MaxText == 3
\* most entities of such a body
MaxEntities == 1

(***************************************************************************)
(* Classifier runs: a mapping payload is drawn, then classified.           *)
(***************************************************************************)
\* the keys a payload may carry: every kind, and two keys that are no kind
PayloadKeys == update_types \o << "update_id", "foo" >>

RECURSIVE KeySets(_)
KeySets(n) ==
    IF n = 0 THEN {{}}
    ELSE LET P == KeySets(n - 1)
         IN P \cup {s \cup {PayloadKeys[j]} : s \in P, j \in 1..Len(PayloadKeys)}

Reverse(q) == [j \in 1..Len(q) |-> q[Len(q) + 1 - j]]

\* the payload with the keys of s, in the order of PayloadKeys or reversed
PayloadOf(s, rev) ==
    LET ks == SelectSeq(PayloadKeys, LAMBDA k : k \in s)
        ord == IF rev THEN Reverse(ks) ELSE ks
    IN JDict(ord, [j \in 1..Len(ord) |-> JDict(<<>>, <<>>)])

ClassifyInputs == {PayloadOf(s, rev) : s \in KeySets(MaxKeys), rev \in BOOLEAN}


Classify ==
    /\ cresult = "unset"
    /\ cpayload # JNull
    /\ cresult' = extract_update_type(cpayload)
    /\ UNCHANGED <<cpayload, xc>>

(***************************************************************************)
(* Rewrite runs: a value is built up from a leaf, rewritten, and the       *)
(* result rewritten again.                                                 *)
(***************************************************************************)
RECURSIVE Size(_)
Size(v) ==
    LET F[j \in 0..Len(v.kids)] == IF j = 0 THEN 0 ELSE F[j - 1] + Size(v.kids[j])
    IN 1 + F[Len(v.kids)]

NormKeys == {"from", "from_user", "chat"}
NormLeaves == {JInt(7), JStr("x"), JDict(<<"from">>, <<JInt(7)>>)}


\* {k: nval}
NWrapDict(k) ==
    /\ npc = "build" /\ Size(nval) < MaxNodes
    /\ nval' = JDict(<<k>>, <<nval>>)
    /\ UNCHANGED <<nout, nout2, npc, xn>>

\* [nval]
NWrapList ==
    /\ npc = "build" /\ Size(nval) < MaxNodes
    /\ nval' = JList(<<nval>>)
    /\ UNCHANGED <<nout, nout2, npc, xn>>

\* one more entry in the mapping nval, or one more element in the sequence nval
NAddSibling(k, leaf) ==
    /\ npc = "build" /\ Size(nval) + Size(leaf) <= MaxNodes
    /\ \/ IsDict(nval) /\ ~HasKey(nval, k) /\ nval' = SetItem(nval, k, leaf)
       \/ IsList(nval) /\ k = "chat" /\ nval' = JList(Append(nval.kids, leaf))
    /\ UNCHANGED <<nout, nout2, npc, xn>>

NApply ==
    /\ npc = "build"
    /\ nout' = fix_reserved_keys(nval)
    /\ npc' = "fixed"
    /\ UNCHANGED <<nval, nout2, xn>>

NApplyAgain ==
    /\ npc = "fixed"
    /\ nout2' = fix_reserved_keys(nout)
    /\ npc' = "again"
    /\ UNCHANGED <<nval, nout, xn>>

(***************************************************************************)
(* Filter runs: a filter is built from leaves with the combinators, then   *)
(* called on a body.                                                       *)
(***************************************************************************)
RECURSIVE Ops(_)
Ops(f) ==
    IF Len(f.sub) = 0 THEN 0
    ELSE IF Len(f.sub) = 1 THEN 1 + Ops(f.sub[1])
    ELSE 1 + Ops(f.sub[1]) + Ops(f.sub[2])

\* the primitive filters: text("hi"), and a FilterWrapper around a raising predicate
FilterPrimitives == {FText({"hi"}), FWrap("boom", {}), FBase}
\* what a combinator may also be given as an operand: a bare predicate
FilterOperands == FilterPrimitives \cup {FRaw("boom")}
FilterBodies ==
    { JDict(<<"text">>, <<JStr("hi")>>),
      JDict(<<"caption">>, <<JStr("x")>>),
      JInt(5) }

\* f & leaf, leaf & f
FBuildAnd(leaf) ==
    /\ fres = "unset" /\ Ops(ffilt) < MaxOps
    /\ ffilt' \in {FAnd(ffilt, leaf), FAnd(leaf, ffilt)}
    /\ UNCHANGED <<fbody, fres, fraised, xf>>

\* f | leaf, leaf | f
FBuildOr(leaf) ==
    /\ fres = "unset" /\ Ops(ffilt) < MaxOps
    /\ ffilt' \in {FOr(ffilt, leaf), FOr(leaf, ffilt)}
    /\ UNCHANGED <<fbody, fres, fraised, xf>>

\* f.invert()
FBuildNot ==
    /\ fres = "unset" /\ Ops(ffilt) < MaxOps
    /\ ffilt' = FNot(ffilt)
    /\ UNCHANGED <<fbody, fres, fraised, xf>>

\* f(body), for a FilterBase object f
FEvaluate ==
    /\ fres = "unset"
    /\ ffilt.op \notin {"none", "raw"}
    /\ fres' = Call(ffilt, fbody)
    /\ fraised' = Raised(ffilt, fbody)
    /\ UNCHANGED <<ffilt, fbody, xf>>

(***************************************************************************)
(* Command filter runs: a body is typed and given entities, perhaps as a   *)
(* caption, and the filter command(kcmds...) is called on it.             *)
(***************************************************************************)
CommandNames == { {<<"s">>}, {<<"/", "s">>} }
EntityTypes == {"bot_command", "url"}
NoCommandBody == CommandBody(<<>>, <<>>, <<>>, <<>>)

\* the body is still being written as a text
KWriting == kres = "unset" /\ kbody.caption = <<>> /\ kbody.caption_entities = <<>>

KType(c) ==
    /\ KWriting /\ Len(kbody.text) < MaxText
    /\ kbody' = [kbody EXCEPT !.text = Append(@, c)]
    /\ UNCHANGED <<kcmds, kres, xk>>

KAddEntity(e) ==
    /\ KWriting /\ Len(kbody.entities) < MaxEntities
    /\ kbody' = [kbody EXCEPT !.entities = Append(@, e)]
    /\ UNCHANGED <<kcmds, kres, xk>>

\* the same words and entities as the caption of a body without text
KAsCaption ==
    /\ KWriting /\ (kbody.text # <<>> \/ kbody.entities # <<>>)
    /\ kbody' = CommandBody(<<>>, kbody.text, <<>>, kbody.entities)
    /\ UNCHANGED <<kcmds, kres, xk>>

\* filters.command(kcmds...)(kbody): FilterWrapper.__call__ around func
KEvaluate ==
    /\ kres = "unset" /\ kcmds # {}
    /\ kres' = WrapCall(CommandFunc(valid_cmds(kcmds), kbody))
    /\ UNCHANGED <<kcmds, kbody, xk>>

(***************************************************************************)
(* The bot.                                                                *)
(***************************************************************************)
Threads == {"webhook", "poll"}

\* handler functions: an ordinary function that returns, one that raises,
\* and an `async def` (calling it returns a coroutine and runs none of it)
Handler(name, beh) == [name |-> name, beh |-> beh]
HReturns == Handler("h_returns", "returns")
HRaises == Handler("h_raises", "raises")
HAsync == Handler("h_async", "coroutine")

NoPass == [kind |-> "", data |-> JNull, snap |-> <<>>, idx |-> 1]

\* Bot.__init__: self.handlers = {ut: [] for ut in update_types}; the
\* event loop thread is started and idle; no thread is dispatching
BotInit ==
    /\ handlers = [k \in Kinds |-> <<>>]
    /\ disp = [t \in Threads |-> NoPass]
    /\ calls = [t \in Threads |-> <<>>]
    /\ loopQueue = <<>>
    /\ wpc = "idle" /\ wreq = JNull /\ wstatus = 0
    /\ ppc = "off" /\ offset = 0 /\ sentOffset = 0 /\ upd = JNull /\ bidx = 0
    /\ seen = {} /\ failure = ""

NumRegistered ==
    LET F[j \in 0..Len(update_types)] ==
            IF j = 0 THEN 0 ELSE F[j - 1] + Len(handlers[update_types[j]])
    IN F[Len(update_types)]

\* a registration that puts the pair before those of the kind
RegisterFirst(update_type, filter_, fn) ==
    /\ NumRegistered < MaxHandlers
    /\ handlers' = [handlers EXCEPT ![update_type] =
                        <<[filt |-> filter_, fn |-> fn]>> \o @]
    /\ UNCHANGED <<disp, calls, loopQueue, wvars, pvars, xb>>

\* a registration that also reaches the passes under way over the kind, as
\* if the loop went over self.handlers[update_type] itself
RegisterLive(update_type, filter_, fn) ==
    /\ NumRegistered < MaxHandlers
    /\ handlers' = [handlers EXCEPT ![update_type] =
                        Append(@, [filt |-> filter_, fn |-> fn])]
    /\ disp' = [t \in Threads |->
                  IF disp[t].kind = update_type
                  THEN [disp[t] EXCEPT !.snap =
                           Append(@, [filt |-> filter_, fn |-> fn])]
                  ELSE disp[t]]
    /\ UNCHANGED <<calls, loopQueue, wvars, pvars, xb>>

\* bot.on_<update_type>(filter_)(fn): _handler_decorator's decorator
Register(update_type, filter_, fn) ==
    /\ NumRegistered < MaxHandlers
    /\ handlers' = [handlers EXCEPT ![update_type] =
                        Append(@, [filt |-> filter_, fn |-> fn])]
    /\ UNCHANGED <<disp, calls, loopQueue, wvars, pvars, xb>>

\* the first statement of _process_handlers: list(self.handlers.get(update_type, []))
StartPass(update_type, data) ==
    [kind |-> update_type, data |-> data,
     snap |-> IF update_type \in DOMAIN handlers THEN handlers[update_type] ELSE <<>>,
     idx |-> 1]

PassDone(t) == disp[t].idx > Len(disp[t].snap)

\* the call returning only once the event loop has started every coroutine
\* the thread handed to it (as if the future's result were waited for)
PassReturnsAfterLoop(t) ==
    PassDone(t) /\ \A j \in 1..Len(loopQueue) : loopQueue[j].by # t

\* the call of _process_handlers on thread t returns once the loop is over:
\* a coroutine handed to the event loop is not waited for
PassReturns(t) == PassDone(t)

\* a filter whose exception counts as a match
FilterOutcomeRaiseMatches(filt, data) ==
    IF ~IsCallable(filt) THEN match_filter(data, filt)
    ELSE IF Call(filt, data) = "E" THEN "T" ELSE Call(filt, data)

\* `ok = filt(data) if callable(filt) else match_filter(data, filt)`
FilterOutcome(filt, data) ==
    IF IsCallable(filt) THEN Call(filt, data) ELSE match_filter(data, filt)

\* the loop left at the first exception (the try around the loop)
NextPairAbort(snap, idx, raised) == IF raised THEN Len(snap) + 1 ELSE idx + 1

\* where the loop of _process_handlers goes on after the pair at idx, when
\* an exception was raised in its try block and when none was: the except
\* clause is inside the loop
NextPair(snap, idx, raised) == idx + 1

\* what of the body of fn has run on the calling thread when `handler(data)`
\* is over: all of it, the part up to the raise, or, for an `async def`,
\* none of it (the call only makes the coroutine object)
RanOnCall(fn) ==
    CASE fn.beh = "returns" -> "body"
      [] fn.beh = "raises" -> "to_raise"
      [] fn.beh = "coroutine" -> "none"

\* the identity of a new coroutine object: one no coroutine of the queue has
FreshId(queue) ==
    CHOOSE i \in 0..Len(queue) :
        /\ \A j \in 1..Len(queue) : queue[j].id # i
        /\ \A l \in 0..(i - 1) : \E j \in 1..Len(queue) : queue[j].id = l

\* the coroutine `handler(data)` returned on thread t: its body not begun
Coroutine(fn, t, queue) ==
    [fn |-> fn, by |-> t, id |-> FreshId(queue), at |-> "start"]

\* a hand-over in which the newest coroutine of another thread is overwritten
SubmitRacy(queue, fn, t) ==
    IF Len(queue) > 0 /\ queue[Len(queue)].by # t
    THEN [queue EXCEPT ![Len(queue)] = Coroutine(fn, t, <<>>)]
    ELSE Append(queue, Coroutine(fn, t, queue))

\* asyncio.run_coroutine_threadsafe(result, self.loop) called on thread t:
\* the coroutine is queued on the loop, after those queued before
Submit(queue, fn, t) == Append(queue, Coroutine(fn, t, queue))

\* one iteration of the loop of _process_handlers on thread t
ProcessPair(t) ==
    LET d == disp[t]
        pair == d.snap[d.idx]
        ok == FilterOutcome(pair.filt, d.data)
        raised == ok = "E" \/ (ok = "T" /\ pair.fn.beh = "raises")
    IN /\ ~PassDone(t)
       /\ disp' = [disp EXCEPT ![t].idx = NextPair(d.snap, d.idx, raised)]
       /\ calls' = IF ok = "T"
                   THEN [calls EXCEPT ![t] =
                            Append(@, [fn |-> pair.fn.name, body |-> d.data,
                                       ran |-> RanOnCall(pair.fn)])]
                   ELSE calls
       /\ loopQueue' = IF ok = "T" /\ pair.fn.beh = "coroutine"
                       THEN Submit(loopQueue, pair.fn.name, t)
                       ELSE loopQueue
       /\ UNCHANGED handlers

(***************************************************************************)
(* The event loop thread (_run_loop: loop.run_forever()).                  *)
(***************************************************************************)
\* the loop starts the oldest coroutine handed to it; the coroutine runs
\* there, to its end or to an await at which it stays
LoopRun ==
    /\ Len(loopQueue) > 0
    /\ loopQueue' = Tail(loopQueue)
    /\ UNCHANGED <<handlers, disp, calls, wvars, pvars, xb>>

(***************************************************************************)
(* The webhook view (handle_webhook).                                      *)
(***************************************************************************)
\* a POST arrives; request.get_json(silent=True) gives its parsed payload,
\* None when the body is empty or cannot be parsed
WebhookRequest(payload) ==
    /\ wpc = "idle"
    /\ Len(loopQueue) <= MaxBacklog
    /\ wpc' = "handling" /\ wreq' = payload /\ wstatus' = 0
    /\ UNCHANGED <<handlers, disp, calls, loopQueue, pvars, xb>>

\* the test without `update_type and`
DispatchesUnknown(update_type) == update_type # RaisesTypeError

\* whether the view dispatches: `if update_type and update_type in self.handlers`
Dispatches(update_type) ==
    update_type \notin {NoKind, RaisesTypeError} /\ update_type \in DOMAIN handlers

\* the data without the rewrite
WebhookDataRaw(update, update_type) == DictGet(update, update_type, JDict(<<>>, <<>>))

\* the data the view dispatches: self._fix_reserved_keys(update.get(update_type, {}))
WebhookData(update, update_type) ==
    fix_reserved_keys(DictGet(update, update_type, JDict(<<>>, <<>>)))

\* the view up to its call of _process_handlers
WebhookHandle ==
    /\ wpc = "handling"
    /\ LET update_type == extract_update_type(wreq)
       IN IF ~Truthy(wreq)
          THEN wstatus' = 400 /\ wpc' = "idle" /\ UNCHANGED <<disp, calls>>
          ELSE IF update_type = RaisesTypeError
          THEN wstatus' = 500 /\ wpc' = "idle" /\ UNCHANGED <<disp, calls>>
          ELSE IF ~Dispatches(update_type)
          THEN wstatus' = 200 /\ wpc' = "idle" /\ UNCHANGED <<disp, calls>>
          ELSE IF ~IsDict(wreq)
          THEN wstatus' = 500 /\ wpc' = "idle" /\ UNCHANGED <<disp, calls>>
          ELSE /\ disp' = [disp EXCEPT !["webhook"] =
                              StartPass(update_type, WebhookData(wreq, update_type))]
               /\ calls' = [calls EXCEPT !["webhook"] = <<>>]
               /\ wpc' = "dispatch" /\ wstatus' = 0
    /\ UNCHANGED <<handlers, loopQueue, wreq, pvars, xb>>

WebhookDispatch ==
    /\ wpc = "dispatch"
    /\ ProcessPair("webhook")
    /\ UNCHANGED <<wvars, pvars, xb>>

\* _process_handlers has returned: `return "...", 200`
WebhookReturn ==
    /\ wpc = "dispatch" /\ PassReturns("webhook")
    /\ wstatus' = 200 /\ wpc' = "idle"
    /\ UNCHANGED <<handlers, disp, calls, loopQueue, wreq, pvars, xb>>

(***************************************************************************)
(* The polling thread (_polling_loop).                                     *)
(***************************************************************************)
Max(a, b) == IF a >= b THEN a ELSE b

\* run() starts the thread; `offset = 0`
PollStart ==
    /\ ppc = "off"
    /\ ppc' = "request" /\ offset' = 0
    /\ UNCHANGED <<handlers, disp, calls, loopQueue, wvars,
                   sentOffset, upd, bidx, seen, failure, xb>>

\* what requests.post and resp.json() give: an exception of requests.post,
\* a body that is no JSON, or a JSON value.  The elements of a list under
\* "result" are not held in the value: PollNext draws them one at a time.
Response(err, body) == [err |-> err, body |-> body]
PollResponses ==
    { Response("transport", JNull),
      Response("nonjson", JNull),
      Response("", JList(<<>>)),
      Response("", JDict(<<"ok">>, <<JBool(FALSE)>>)),
      Response("", JDict(<<"ok", "description">>, <<JBool(FALSE), JStr("Conflict")>>)),
      Response("", JDict(<<"ok">>, <<JBool(TRUE)>>)),
      Response("", JDict(<<"ok", "result">>, <<JBool(TRUE), JNull>>)),
      Response("", JDict(<<"ok", "result">>, <<JBool(TRUE), JList(<<>>)>>)) }

\* the round without its outer try: an exception ends the thread
FetchOutcomeUnguarded(resp) ==
    IF resp.err = "transport" THEN <<"dead", "transport">>
    ELSE IF resp.err = "nonjson" THEN <<"backoff_continue", "nonjson">>
    ELSE IF ~IsDict(resp.body) THEN <<"dead", "shape">>
    ELSE IF ~Truthy(DictGet(resp.body, "ok", JNull)) THEN <<"sleep", "notok">>
    ELSE LET result == DictGet(resp.body, "result", JList(<<>>))
         IN IF IsList(result) THEN <<"batch", "">>
            ELSE IF result.t \in {"dict", "str"} /\ ~Truthy(result)
            THEN <<"sleep", "">>
            ELSE <<"dead", "shape">>

\* one round of the loop from requests.post to the start of the for loop:
\* where it goes, and the failure it met
FetchOutcome(resp) ==
    IF resp.err = "transport" THEN <<"backoff", "transport">>
    ELSE IF resp.err = "nonjson" THEN <<"backoff_continue", "nonjson">>
    ELSE IF ~IsDict(resp.body) THEN <<"backoff", "shape">>
    ELSE IF ~Truthy(DictGet(resp.body, "ok", JNull)) THEN <<"sleep", "notok">>
    ELSE LET result == DictGet(resp.body, "result", JList(<<>>))
         IN IF IsList(result) THEN <<"batch", "">>
            ELSE IF result.t \in {"dict", "str"} /\ ~Truthy(result)
            THEN <<"sleep", "">>
            ELSE <<"backoff", "shape">>

PollFetch(resp) ==
    /\ ppc = "request"
    /\ Len(loopQueue) <= MaxBacklog
    /\ sentOffset' = offset
    /\ ppc' = FetchOutcome(resp)[1]
    /\ failure' = FetchOutcome(resp)[2]
    /\ bidx' = 0 /\ upd' = JNull
    /\ UNCHANGED <<handlers, disp, calls, loopQueue, wvars,
                   offset, seen, xb>>

\* whether upd["update_id"] + 1 has a value
HasUpdateId(u) ==
    /\ IsDict(u) /\ HasKey(u, "update_id")
    /\ GetItem(u, "update_id").t \in {"int", "bool"}

\* the cursor set past the update at hand, whatever it was before
AdvanceOffsetNoMax(off, u) == GetItem(u, "update_id").i + 1

\* `offset = max(offset, upd["update_id"] + 1)`
AdvanceOffset(off, u) == Max(off, GetItem(u, "update_id").i + 1)

\* the body of the for loop for the next update u of the result, up to its
\* call of _process_handlers
PollNext(u) ==
    /\ ppc = "batch" /\ bidx < MaxBatch
    /\ Len(loopQueue) <= MaxBacklog
    /\ upd' = u /\ bidx' = bidx + 1
    /\ IF ~HasUpdateId(u)
       THEN /\ ppc' = "backoff" /\ failure' = "element"
            /\ UNCHANGED <<offset, seen, disp, calls>>
       ELSE /\ offset' = AdvanceOffset(offset, u)
            /\ seen' = seen \cup {GetItem(u, "update_id").i}
            /\ failure' = failure
            /\ LET utype == extract_update_type(u)
               IN IF utype = NoKind
                  THEN ppc' = "batch" /\ UNCHANGED <<disp, calls>>
                  ELSE /\ disp' = [disp EXCEPT !["poll"] =
                                     StartPass(utype, WebhookData(u, utype))]
                       /\ calls' = [calls EXCEPT !["poll"] = <<>>]
                       /\ ppc' = "dispatch"
    /\ UNCHANGED <<handlers, loopQueue, wvars, sentOffset, xb>>

PollDispatch ==
    /\ ppc = "dispatch"
    /\ ProcessPair("poll")
    /\ UNCHANGED <<wvars, pvars, xb>>

\* the for loop going on to the next update while the pass is under way
PollDispatchedEarly ==
    /\ ppc = "dispatch"
    /\ ppc' = "batch"
    /\ UNCHANGED <<handlers, disp, calls, loopQueue, wvars,
                   offset, sentOffset, upd, bidx, seen, failure, xb>>

\* _process_handlers has returned: on to the next update
PollDispatched ==
    /\ ppc = "dispatch" /\ PassReturns("poll")
    /\ ppc' = "batch"
    /\ UNCHANGED <<handlers, disp, calls, loopQueue, wvars,
                   offset, sentOffset, upd, bidx, seen, failure, xb>>

\* the result has no more updates
PollBatchEnd ==
    /\ ppc = "batch"
    /\ ppc' = "sleep"
    /\ UNCHANGED <<handlers, disp, calls, loopQueue, wvars,
                   offset, sentOffset, upd, bidx, seen, failure, xb>>

\* the outer except clause: safe_print, time.sleep(1)
PollBackoff ==
    /\ ppc = "backoff"
    /\ ppc' = "sleep"
    /\ UNCHANGED <<handlers, disp, calls, loopQueue, wvars,
                   offset, sentOffset, upd, bidx, seen, failure, xb>>

\* the inner except clause: time.sleep(1); continue
PollBackoffContinue ==
    /\ ppc = "backoff_continue"
    /\ ppc' = "request"
    /\ UNCHANGED <<handlers, disp, calls, loopQueue, wvars,
                   offset, sentOffset, upd, bidx, seen, failure, xb>>

\* time.sleep(polling_sleep), and round the loop again
PollSleep ==
    /\ ppc = "sleep"
    /\ ppc' = "request"
    /\ UNCHANGED <<handlers, disp, calls, loopQueue, wvars,
                   offset, sentOffset, upd, bidx, seen, failure, xb>>

(***************************************************************************)
(* What is registered, posted and fetched.                                 *)
(***************************************************************************)
BodyHi == JDict(<<"text", "chat">>, <<JStr("hi"), JDict(<<"id">>, <<JInt(42)>>)>>)
BodyFrom == JDict(<<"from", "text">>, <<JDict(<<"id">>, <<JInt(7)>>), JStr("x")>>)
BodyEntities ==
    JDict(<<"text", "from", "entities">>,
          <<JStr("hi"), JDict(<<"id">>, <<JInt(7)>>),
            JList(<<JDict(<<"type", "from">>, <<JStr("mention"), JInt(1)>>)>>)>>)
BodyQuery == JDict(<<"data", "from">>, <<JStr("like"), JDict(<<"id">>, <<JInt(7)>>)>>)

DispatchFilters ==
    {FText({"hi"}), FNot(FText({"hi"})), FRaw("boom"),
     FDict(JDict(<<"text">>, <<JStr("hi")>>))}
DispatchHandlers == {HReturns, HRaises, HAsync}
DispatchRegistrations ==
    {<<"message", f, h>> : f \in DispatchFilters, h \in DispatchHandlers}
        \cup {<<"callback_query", FNone, HAsync>>}
DispatchPayloads ==
    { JDict(<<"message">>, <<BodyHi>>),
      JDict(<<"message">>, <<BodyFrom>>),
      JDict(<<"message">>, <<JInt(5)>>),
      JDict(<<"update_id", "callback_query">>, <<JInt(1), BodyQuery>>) }

WebRegistrations ==
    { <<"message", FText({"hi"}), HAsync>>,
      <<"message", FOr(FText({"x"}), FDict(JDict(<<>>, <<>>))), HReturns>>,
      <<"message", FNone, HRaises>>,
      <<"callback_query", FNone, HAsync>> }

WebPayloads ==
    { JNull, JDict(<<>>, <<>>), JInt(5), JBool(TRUE), JStr("message"),
      JList(<<JStr("message")>>), JList(<<JInt(1)>>),
      JDict(<<"foo">>, <<JInt(1)>>),
      JDict(<<"message">>, <<BodyHi>>),
      JDict(<<"message">>, <<BodyFrom>>),
      JDict(<<"message">>, <<BodyEntities>>),
      JDict(<<"message">>, <<JInt(5)>>),
      JDict(<<"update_id", "callback_query">>, <<JInt(1), BodyQuery>>),
      JDict(<<"edited_message", "message">>, <<BodyFrom, BodyHi>>) }

PollRegistrations ==
    { <<"message", FText({"hi"}), HReturns>>,
      <<"message", FNone, HRaises>>,
      <<"callback_query", FRaw("boom"), HReturns>> }

PollUpdates ==
    { JDict(<<"update_id", "message">>, <<JInt(n), BodyHi>>) : n \in 0..MaxUpdateId }
        \cup { JDict(<<"update_id", "callback_query">>, <<JInt(n), BodyQuery>>) :
                 n \in 0..MaxUpdateId }
        \cup { JDict(<<"update_id">>, <<JInt(n)>>) : n \in 0..MaxUpdateId }
        \cup { JDict(<<"message">>, <<BodyHi>>), JInt(5) }

NextClassify == Classify
InitClassify ==
    /\ cpayload \in ClassifyInputs /\ cresult = "unset"
    /\ nval = JNull /\ nout = JNull /\ nout2 = JNull /\ npc = "off"
    /\ ffilt = FNone /\ fbody = JNull /\ fres = "unset" /\ fraised = FALSE
    /\ kcmds = {} /\ kbody = NoCommandBody /\ kres = "unset"
    /\ BotInit
SpecClassify == InitClassify /\ [][NextClassify]_vars

NextNorm ==
    \/ \E k \in NormKeys : NWrapDict(k)
    \/ NWrapList
    \/ \E k \in NormKeys, leaf \in NormLeaves : NAddSibling(k, leaf)
    \/ NApply
    \/ NApplyAgain
InitNorm ==
    /\ cpayload = JNull /\ cresult = "unset"
    /\ nval \in NormLeaves /\ nout = JNull /\ nout2 = JNull /\ npc = "build"
    /\ ffilt = FNone /\ fbody = JNull /\ fres = "unset" /\ fraised = FALSE
    /\ kcmds = {} /\ kbody = NoCommandBody /\ kres = "unset"
    /\ BotInit
SpecNorm == InitNorm /\ [][NextNorm]_vars

NextFilter ==
    \/ FBuildNot
    \/ \E leaf \in FilterOperands : FBuildAnd(leaf)
    \/ \E leaf \in FilterOperands : FBuildOr(leaf)
    \/ FEvaluate
InitFilter ==
    /\ cpayload = JNull /\ cresult = "unset"
    /\ nval = JNull /\ nout = JNull /\ nout2 = JNull /\ npc = "off"
    /\ ffilt \in FilterOperands /\ fbody \in FilterBodies
    /\ fres = "unset" /\ fraised = FALSE
    /\ kcmds = {} /\ kbody = NoCommandBody /\ kres = "unset"
    /\ BotInit
SpecFilter == InitFilter /\ [][NextFilter]_vars

\* text filters called on bodies with every pairing of text and caption
Absent == [t |-> "absent", i |-> 0, s |-> "", keys |-> <<>>, kids |-> <<>>]
TextFieldValues == {Absent, JNull, JStr(""), JStr("hi"), JStr("x")}
\* the body with the given text and caption, a key left out when Absent
TextBody(text, caption) ==
    LET withText == IF text = Absent THEN JDict(<<>>, <<>>)
                    ELSE JDict(<<"text">>, <<text>>)
    IN IF caption = Absent THEN withText ELSE SetItem(withText, "caption", caption)
TextBodies == {TextBody(t, c) : t \in TextFieldValues, c \in TextFieldValues}
TextFilters == {FText({}), FText({"hi"}), FText({"hi", "x"}), FText({""})}
NextText == FEvaluate
InitText ==
    /\ cpayload = JNull /\ cresult = "unset"
    /\ nval = JNull /\ nout = JNull /\ nout2 = JNull /\ npc = "off"
    /\ ffilt \in TextFilters /\ fbody \in TextBodies
    /\ fres = "unset" /\ fraised = FALSE
    /\ kcmds = {} /\ kbody = NoCommandBody /\ kres = "unset"
    /\ BotInit
SpecText == InitText /\ [][NextText]_vars

\* match_filter called with a mapping filter on a mapping body: mappings
\* of up to two keys over scalars, a list and mappings
MatchLeaves ==
    { JInt(1), JBool(TRUE), JStr("x"), JNull, JList(<<JInt(1)>>),
      JDict(<<>>, <<>>), JDict(<<"a">>, <<JInt(1)>>),
      JDict(<<"a", "b">>, <<JInt(1), JStr("x")>>) }
MatchMappings ==
    {JDict(<<>>, <<>>)}
        \cup {JDict(<<"a">>, <<v>>) : v \in MatchLeaves}
        \cup {JDict(<<"b", "a">>, <<v, w>>) : v, w \in MatchLeaves}

\* match_filter(fbody, ffilt)
MEvaluate ==
    /\ fres = "unset" /\ ffilt.op = "dict"
    /\ fres' = match_filter(fbody, ffilt)
    /\ UNCHANGED <<ffilt, fbody, fraised, xf>>

NextMatch == MEvaluate
InitMatch ==
    /\ cpayload = JNull /\ cresult = "unset"
    /\ nval = JNull /\ nout = JNull /\ nout2 = JNull /\ npc = "off"
    /\ ffilt \in {FDict(d) : d \in MatchMappings} /\ fbody \in MatchMappings
    /\ fres = "unset" /\ fraised = FALSE
    /\ kcmds = {} /\ kbody = NoCommandBody /\ kres = "unset"
    /\ BotInit
SpecMatch == InitMatch /\ [][NextMatch]_vars

NextCommand ==
    \/ \E c \in Chars : KType(c)
    \/ \E type \in EntityTypes, off \in 0..1, length \in 0..MaxText :
          KAddEntity(Entity(type, off, length))
    \/ KAddEntity(NotAnEntity)
    \/ KAsCaption
    \/ KEvaluate
InitCommand ==
    /\ cpayload = JNull /\ cresult = "unset"
    /\ nval = JNull /\ nout = JNull /\ nout2 = JNull /\ npc = "off"
    /\ ffilt = FNone /\ fbody = JNull /\ fres = "unset" /\ fraised = FALSE
    /\ kcmds \in CommandNames /\ kbody = NoCommandBody /\ kres = "unset"
    /\ BotInit
SpecCommand == InitCommand /\ [][NextCommand]_vars

\* the state after Bot(token): nothing registered, no thread dispatching
InitBot ==
    /\ cpayload = JNull /\ cresult = "unset"
    /\ nval = JNull /\ nout = JNull /\ nout2 = JNull /\ npc = "off"
    /\ ffilt = FNone /\ fbody = JNull /\ fres = "unset" /\ fraised = FALSE
    /\ kcmds = {} /\ kbody = NoCommandBody /\ kres = "unset"
    /\ BotInit

\* the bot behind its webhook: registrations, POSTs and the event loop
WebhookThread ==
    \/ WebhookHandle
    \/ WebhookDispatch
    \/ WebhookReturn
NextWebhook ==
    \/ \E r \in WebRegistrations : Register(r[1], r[2], r[3])
    \/ \E payload \in WebPayloads : WebhookRequest(payload)
    \/ WebhookThread
    \/ LoopRun
\* a request thread is scheduled; nothing is assumed of the event loop
SpecWebhook == InitBot /\ [][NextWebhook]_vars /\ WF_vars(WebhookThread)

\* the dispatcher under the webhook, with every pairing of filter and handler
NextDispatch ==
    \/ \E r \in DispatchRegistrations : Register(r[1], r[2], r[3])
    \/ \E payload \in DispatchPayloads : WebhookRequest(payload)
    \/ WebhookThread
    \/ LoopRun
SpecDispatch == InitBot /\ [][NextDispatch]_vars

\* the bot polling: registrations and the polling thread
PollThread ==
    \/ PollStart
    \/ \E resp \in PollResponses : PollFetch(resp)
    \/ \E u \in PollUpdates : PollNext(u)
    \/ PollDispatch
    \/ PollDispatched
    \/ PollBatchEnd
    \/ PollBackoff
    \/ PollBackoffContinue
    \/ PollSleep
NextPoll ==
    \/ \E r \in PollRegistrations : Register(r[1], r[2], r[3])
    \/ PollThread
\* the polling thread is scheduled, and requests.post returns or raises
\* within its timeout
SpecPoll == InitBot /\ [][NextPoll]_vars /\ WF_vars(PollThread)

\* the bot as run() leaves it: the Flask thread serving the webhook and the
\* polling thread dispatching at the same time, the event loop behind both
\* an async handler is registered for every message before run()
BothRegistered ==
    [k \in Kinds |-> IF k = "message" THEN << [filt |-> FNone, fn |-> HAsync] >>
                     ELSE <<>>]
BothPayloads ==
    { JDict(<<"message">>, <<BodyHi>>), JDict(<<"foo">>, <<JInt(1)>>) }
\* getUpdates succeeds
BothResponses ==
    { Response("", JDict(<<"ok", "result">>, <<JBool(TRUE), JList(<<>>)>>)) }
BothUpdates ==
    { JDict(<<"update_id", "message">>, <<JInt(0), BodyHi>>),
      JDict(<<"update_id">>, <<JInt(1)>>) }
BothPollThread ==
    \/ PollStart
    \/ \E resp \in BothResponses : PollFetch(resp)
    \/ \E u \in BothUpdates : PollNext(u)
    \/ PollDispatch
    \/ PollDispatched
    \/ PollBatchEnd
    \/ PollSleep
InitBoth ==
    /\ cpayload = JNull /\ cresult = "unset"
    /\ nval = JNull /\ nout = JNull /\ nout2 = JNull /\ npc = "off"
    /\ ffilt = FNone /\ fbody = JNull /\ fres = "unset" /\ fraised = FALSE
    /\ kcmds = {} /\ kbody = NoCommandBody /\ kres = "unset"
    /\ handlers = BothRegistered
    /\ disp = [t \in Threads |-> NoPass]
    /\ calls = [t \in Threads |-> <<>>]
    /\ loopQueue = <<>>
    /\ wpc = "idle" /\ wreq = JNull /\ wstatus = 0
    /\ ppc = "off" /\ offset = 0 /\ sentOffset = 0 /\ upd = JNull /\ bidx = 0
    /\ seen = {} /\ failure = ""
NextBoth ==
    \/ \E payload \in BothPayloads : WebhookRequest(payload)
    \/ WebhookThread
    \/ BothPollThread
    \/ LoopRun
\* every thread is scheduled: the request thread, the polling thread and
\* the event loop thread
SpecBoth ==
    /\ InitBoth /\ [][NextBoth]_vars
    /\ WF_vars(WebhookThread) /\ WF_vars(BothPollThread) /\ WF_vars(LoopRun)

\* the bot polling with handlers of both sorts registered before run(): an
\* async and a plain handler for a message, an async one for a callback
\* query; getUpdates succeeds, and the event loop runs behind the thread
BatchRegistered ==
    [k \in Kinds |->
        CASE k = "message" -> << [filt |-> FText({"hi"}), fn |-> HAsync],
                                 [filt |-> FNone, fn |-> HReturns] >>
          [] k = "callback_query" -> << [filt |-> FNone, fn |-> HAsync] >>
          [] OTHER -> <<>>]
BatchUpdates ==
    { JDict(<<"update_id", "message">>, <<JInt(0), BodyHi>>),
      JDict(<<"update_id", "callback_query">>, <<JInt(1), BodyQuery>>),
      JDict(<<"update_id">>, <<JInt(2)>>) }
BatchPollThread ==
    \/ PollStart
    \/ \E resp \in BothResponses : PollFetch(resp)
    \/ \E u \in BatchUpdates : PollNext(u)
    \/ PollDispatch
    \/ PollDispatched
    \/ PollBatchEnd
    \/ PollSleep
InitBatch ==
    /\ cpayload = JNull /\ cresult = "unset"
    /\ nval = JNull /\ nout = JNull /\ nout2 = JNull /\ npc = "off"
    /\ ffilt = FNone /\ fbody = JNull /\ fres = "unset" /\ fraised = FALSE
    /\ kcmds = {} /\ kbody = NoCommandBody /\ kres = "unset"
    /\ handlers = BatchRegistered
    /\ disp = [t \in Threads |-> NoPass]
    /\ calls = [t \in Threads |-> <<>>]
    /\ loopQueue = <<>>
    /\ wpc = "idle" /\ wreq = JNull /\ wstatus = 0
    /\ ppc = "off" /\ offset = 0 /\ sentOffset = 0 /\ upd = JNull /\ bidx = 0
    /\ seen = {} /\ failure = ""
NextBatch ==
    \/ BatchPollThread
    \/ LoopRun
SpecBatch == InitBatch /\ [][NextBatch]_vars

(***************************************************************************)
(* Properties of the classifier.                                           *)
(***************************************************************************)
KindIndex(k) == CHOOSE j \in 1..Len(update_types) : update_types[j] = k
PresentKinds(p) == {k \in Kinds : HasKey(p, k)}

\* C3: for every mapping payload the classifier returns the kind that comes
\* first in update_types among the payload's top-level keys (the single
\* kind when one is present, the earlier of two), and None when no key of
\* the payload is a kind.
C3_ClassifyEarliest ==
    cresult # "unset" =>
        LET P == PresentKinds(cpayload)
        IN /\ P = {} => cresult = NoKind
           /\ Cardinality(P) = 1 => P = {cresult}
           /\ P # {} => /\ cresult \in P
                        /\ \A k \in P : KindIndex(cresult) <= KindIndex(k)

\* two kinds present, the later one first in the payload's own key order
C3_Witness ==
    /\ cresult \in Kinds
    /\ Cardinality(PresentKinds(cpayload)) = 2
    /\ cpayload.keys[1] \in Kinds
    /\ cpayload.keys[1] # cresult

(***************************************************************************)
(* Properties of the reserved-key rewrite.                                 *)
(***************************************************************************)
KeySet(d) == {d.keys[j] : j \in 1..Len(d.keys)}

\* some mapping of v, at any depth and through any nesting, has a key `from`
RECURSIVE HasFromAnywhere(_)
HasFromAnywhere(v) ==
    \/ IsDict(v) /\ HasKey(v, "from")
    \/ \E j \in 1..Len(v.kids) : HasFromAnywhere(v.kids[j])

\* some mapping of v has a key `from`, among the mappings reached from a
\* mapping root through values that are mappings and through mappings that
\* are elements of a sequence held directly as a mapping's value
RECURSIVE HasFromVisited(_)
HasFromVisited(v) ==
    /\ IsDict(v)
    /\ \/ HasKey(v, "from")
       \/ \E j \in 1..Len(v.kids) :
            LET c == v.kids[j]
            IN \/ IsDict(c) /\ HasFromVisited(c)
               \/ /\ IsList(c)
                  /\ \E e \in 1..Len(c.kids) :
                        IsDict(c.kids[e]) /\ HasFromVisited(c.kids[e])

\* y is x with `from` renamed to from_user in every such mapping (a sibling
\* from_user being replaced), and nothing else changed
RECURSIVE RewrittenAs(_, _)
RewrittenAs(x, y) ==
    IF ~IsDict(x) THEN y = x
    ELSE /\ IsDict(y)
         /\ KeySet(y) = (KeySet(x) \ {"from"})
                            \cup (IF HasKey(x, "from") THEN {"from_user"} ELSE {})
         /\ Len(y.keys) = Cardinality(KeySet(y))
         /\ \A k \in KeySet(y) :
              LET src == IF k = "from_user" /\ HasKey(x, "from")
                         THEN GetItem(x, "from") ELSE GetItem(x, k)
                  dst == GetItem(y, k)
              IN IF IsDict(src) THEN RewrittenAs(src, dst)
                 ELSE IF IsList(src)
                 THEN /\ IsList(dst)
                      /\ Len(dst.kids) = Len(src.kids)
                      /\ \A e \in 1..Len(src.kids) :
                            IF IsDict(src.kids[e])
                            THEN RewrittenAs(src.kids[e], dst.kids[e])
                            ELSE dst.kids[e] = src.kids[e]
                 ELSE dst = src

\* the same, descending into every sequence
RECURSIVE RewrittenDeep(_, _)
RewrittenDeep(x, y) ==
    IF IsList(x)
    THEN /\ IsList(y)
         /\ Len(y.kids) = Len(x.kids)
         /\ \A e \in 1..Len(x.kids) : RewrittenDeep(x.kids[e], y.kids[e])
    ELSE IF ~IsDict(x) THEN y = x
    ELSE /\ IsDict(y)
         /\ KeySet(y) = (KeySet(x) \ {"from"})
                            \cup (IF HasKey(x, "from") THEN {"from_user"} ELSE {})
         /\ Len(y.keys) = Cardinality(KeySet(y))
         /\ \A k \in KeySet(y) :
              RewrittenDeep(IF k = "from_user" /\ HasKey(x, "from")
                            THEN GetItem(x, "from") ELSE GetItem(x, k),
                            GetItem(y, k))

\* C4 as stated: after the rewrite of a body no mapping at any nesting level, reached
\* through any combination of mappings and sequences, has a key `from`;
\* every such key is renamed and all other values are unchanged.
C4_NoFromAnywhere ==
    npc # "build" /\ IsDict(nval) =>
        ~HasFromAnywhere(nout) /\ RewrittenDeep(nval, nout)

\* C4 amended: after the rewrite of a value, no mapping reached from a
\* mapping root through mapping values and through sequences held directly
\* as a mapping's value has a key `from`; each such `from` is renamed to
\* from_user and every other value, scalar or sequence element, is
\* unchanged.  (A mapping inside a sequence that is itself an element of a
\* sequence, or inside a root that is a sequence, is not visited.)
C4_NoFromVisited ==
    npc # "build" => ~HasFromVisited(nout) /\ RewrittenAs(nval, nout)

\* a mapping whose value is a sequence holding a mapping with `from`
C4_Witness ==
    /\ npc = "fixed"
    /\ IsDict(nval)
    /\ \E j \in 1..Len(nval.kids) :
          /\ IsList(nval.kids[j])
          /\ \E e \in 1..Len(nval.kids[j].kids) :
                /\ IsDict(nval.kids[j].kids[e])
                /\ HasKey(nval.kids[j].kids[e], "from")
                /\ HasKey(nout.kids[j].kids[e], "from_user")

\* C5: the rewrite is idempotent: rewriting a rewritten value changes
\* nothing.
C5_Idempotent == npc = "again" => nout2 = nout

\* a second rewrite of a value the first rewrite changed, with a `from`
\* nested inside a `from`
C5_Witness ==
    /\ npc = "again"
    /\ nout # nval
    /\ IsDict(nval) /\ HasKey(nval, "from")
    /\ IsDict(GetItem(nval, "from")) /\ HasKey(GetItem(nval, "from"), "from")

(***************************************************************************)
(* Properties of the filter algebra.                                       *)
(***************************************************************************)
\* C6: a filter built from the primitive filters and the AND, OR and NOT
\* combinators never lets an exception out of its evaluation, and evaluates
\* to false whenever a predicate inside it raised during that evaluation
\* (a NOT whose operand's predicate raises included).
C6_RaiseGivesFalse ==
    fres # "unset" => fres # "E" /\ (fraised => fres = "F")

(***************************************************************************)
(* Properties of the dispatcher and the webhook.                           *)
(***************************************************************************)
\* the names of the handlers of the pairs among the first n of snap whose
\* filter matches data, in the order of snap
RECURSIVE MatchedNames(_, _, _)
MatchedNames(snap, n, data) ==
    IF n = 0 THEN <<>>
    ELSE LET rest == MatchedNames(snap, n - 1, data)
         IN IF FilterOutcome(snap[n].filt, data) = "T"
            THEN Append(rest, snap[n].fn.name) ELSE rest

IsPrefix(p, q) == Len(p) <= Len(q) /\ \A j \in 1..Len(p) : p[j] = q[j]

\* C1: for every kind and registry, a pass of _process_handlers invokes
\* the handler of every pair whose filter matches the body, in registration
\* order, each with the body; a handler that raises does not keep a later
\* matching pair from being invoked.  (At every point of the pass the
\* invocations so far are those of the matching pairs gone through; the
\* pairs gone through are the registry of the kind as the pass found it.)
C1_EveryMatchInvoked ==
    LET d == disp["webhook"]
        c == calls["webhook"]
    IN wpc = "dispatch" \/ (wpc = "idle" /\ wstatus = 200 /\ d.kind # "") =>
         /\ [j \in 1..Len(c) |-> c[j].fn] = MatchedNames(d.snap, d.idx - 1, d.data)
         /\ \A j \in 1..Len(c) : c[j].body = d.data
         /\ IsPrefix(d.snap, handlers[d.kind])
         /\ wpc = "idle" => d.idx = Len(d.snap) + 1

\* a finished pass in which a handler that raises was invoked, and then another
C1_Witness ==
    /\ wpc = "idle" /\ wstatus = 200
    /\ Len(calls["webhook"]) = 2
    /\ calls["webhook"][1].fn = "h_raises"
    /\ disp["webhook"].kind = "message"

\* the coroutines the current pass of the webhook thread handed to the loop
AsyncCalls ==
    Len(SelectSeq(calls["webhook"], LAMBDA c : c.fn = "h_async"))

\* C7: a coroutine handed to the event loop never delays ingestion: once
\* the view dispatches, the pass ends and the view answers 200, whether or
\* not the event loop ever runs the coroutine.
C7_AnswersWithoutWaiting ==
    (wpc = "dispatch") ~> (wpc = "idle" /\ wstatus = 200)

\* 200 answered with the coroutine of this request not even started
C7_Witness ==
    /\ wpc = "idle" /\ wstatus = 200
    /\ AsyncCalls > 0
    /\ Len(loopQueue) >= AsyncCalls

\* C8: the webhook answers every request with 200 or 400; no payload makes
\* the view raise (answered as 500) or answer anything else.
C8_Answers200Or400 == wstatus \in {0, 200, 400}

\* the kind of a payload that carries exactly one
OnlyKind(update) == CHOOSE k \in PresentKinds(update) : TRUE

C2_CursorAdvances ==
    /\ [][offset' >= offset]_vars
    /\ [](ppc = "request" => \A id \in seen : offset > id)

\* a request after a batch whose last update had a lower id than an earlier one
C2_Witness ==
    /\ ppc = "request"
    /\ HasUpdateId(upd)
    /\ offset > GetItem(upd, "update_id").i + 1

FetchFailures == {"transport", "nonjson", "shape", "notok"}

\* C9: no failure ends the polling loop.  After a transport error, a body
\* that is no JSON, a response of the wrong shape or one with ok false, the
\* cursor is the one the failed request sent; after any failure, one of an
\* entry of the result included, the loop leaves the cursor alone while it
\* waits, and it goes on to another getUpdates request.
C9_RetriesAfterFailure ==
    /\ [](failure \in FetchFailures => offset = sentOffset)
    /\ [][failure # "" /\ ppc # "request" => offset' = offset]_vars
    /\ [](ppc # "dead")
    /\ (failure # "") ~> (ppc = "request")

\* a second request sent with the cursor of the one that failed
C9_Witness ==
    /\ ppc = "request"
    /\ failure \in FetchFailures
    /\ seen # {}
    /\ offset = sentOffset

(***************************************************************************)
(* Properties of the filter factories.                                     *)
(***************************************************************************)
\* the registered forms that begin with "/"
SlashForms(commands) == {f \in valid_cmds(commands) : StartsWithSlash(f)}

\* C11: command(names...) matches a body if and only if (a) the body has a
\* bot_command entity at offset 0 whose sliced text, with an @botname
\* suffix stripped, is a registered form, or (b) the text of the body is a
\* registered form that begins with "/"; so a text that is only the bare
\* name does not match.
C11_CommandMatchesIff ==
    kres # "unset" =>
      LET text == BodyText(kbody)
          ents == BodyEntityList(kbody)
          byEntity == \E j \in 1..Len(ents) :
                         /\ ents[j].t = "dict"
                         /\ ents[j].type = "bot_command" /\ ents[j].offset = 0
                         /\ BeforeAt(Slice(text, ents[j].length)) \in valid_cmds(kcmds)
          byText == text \in SlashForms(kcmds)
      IN kres = "T" <=> (text # <<>> /\ (byEntity \/ byText))

\* C12: text() with no arguments matches every body whose text or caption
\* is not null, an empty-string text included, and no body where both are
\* absent or null; text(v1..vn) matches exactly the bodies whose text, or
\* caption when the text is absent, is one of the values.
C12_TextMatchesIff ==
    fres # "unset" /\ ffilt.op = "wrap" /\ ffilt.fn = "text" /\ IsDict(fbody) =>
      LET text == DictGet(fbody, "text", JNull)
          caption == DictGet(fbody, "caption", JNull)
          chosen == IF text # JNull THEN text ELSE caption
      IN fres = "T" <=>
           IF ffilt.vals = {} THEN text # JNull \/ caption # JNull
           ELSE chosen # JNull /\ chosen.s \in ffilt.vals

(***************************************************************************)
(* Properties of the combinators.                                          *)
(***************************************************************************)
TruthOf(b) == IF b THEN "T" ELSE "F"

\* C13: on one body, when the operands evaluate without error, AND, OR and
\* NOT give the conjunction, disjunction and negation of their operands'
\* results, and so AND and OR are commutative and associative, a double
\* negation gives the operand's result, and De Morgan's laws hold.  (The
\* filter evaluated is one operand, with the result the call gave; the
\* others are every operand a combinator may be given.)
C13_BooleanLaws ==
    fres # "unset" =>
      \A b, c \in FilterOperands :
        LET a == ffilt
            v(x) == Call(x, fbody)
        IN v(b) # "E" /\ v(c) # "E" =>
             /\ fres = v(a) /\ fres # "E"
             /\ v(FAnd(a, b)) = TruthOf(fres = "T" /\ v(b) = "T")
             /\ v(FOr(a, b)) = TruthOf(fres = "T" \/ v(b) = "T")
             /\ v(FNot(a)) = TruthOf(fres # "T")
             /\ v(FAnd(a, b)) = v(FAnd(b, a))
             /\ v(FOr(a, b)) = v(FOr(b, a))
             /\ v(FAnd(FAnd(a, b), c)) = v(FAnd(a, FAnd(b, c)))
             /\ v(FOr(FOr(a, b), c)) = v(FOr(a, FOr(b, c)))
             /\ v(FNot(FNot(a))) = fres
             /\ v(FNot(FAnd(a, b))) = v(FOr(FNot(a), FNot(b)))
             /\ v(FNot(FOr(a, b))) = v(FAnd(FNot(a), FNot(b)))

\* a negated OR evaluated to true, no predicate raising
C13_Witness ==
    /\ fres = "T" /\ ~fraised
    /\ ffilt.op = "not" /\ ffilt.sub[1].op = "or"

(***************************************************************************)
(* More properties of the dispatcher.                                      *)
(***************************************************************************)
\* the call filt(data) raises
FilterRaises(filt, data) == IsCallable(filt) /\ Call(filt, data) = "E"

\* C14: in the dispatcher a filter whose evaluation raises is a non-match:
\* the handler of its pair is not invoked, the exception does not leave the
\* dispatcher, and the pass goes on with the next pair.  (The invocations
\* of a pass are those it would make were the pairs with a raising filter
\* not registered, the pass ends at the end of the list, and a payload that
\* is dispatched is never answered 500.)
C14_RaisingFilterIsNoMatch ==
    LET d == disp["webhook"]
        c == calls["webhook"]
        quiet == SelectSeq(SubSeq(d.snap, 1, d.idx - 1),
                           LAMBDA pr : ~FilterRaises(pr.filt, d.data))
    IN /\ wpc = "dispatch" \/ (wpc = "idle" /\ wstatus = 200 /\ d.kind # "") =>
            /\ [j \in 1..Len(c) |-> c[j].fn] = MatchedNames(quiet, Len(quiet), d.data)
            /\ wpc = "idle" => d.idx = Len(d.snap) + 1
       /\ wstatus = 500 => ~IsDict(wreq)

\* a finished pass whose first pair has a filter that raises, and whose
\* second pair was invoked
C14_Witness ==
    /\ wpc = "idle" /\ wstatus = 200
    /\ Len(disp["webhook"].snap) = 2
    /\ FilterRaises(disp["webhook"].snap[1].filt, disp["webhook"].data)
    /\ Len(calls["webhook"]) = 1

(***************************************************************************)
(* Properties of the bot with both ingestion threads.                      *)
(***************************************************************************)
\* an update that carries no kind
Kindless(u) == IsDict(u) /\ Truthy(u) /\ PresentKinds(u) = {}

\* C15: an update with no recognized kind is dropped without effect on
\* ingestion: the webhook answers it 200 and the polling loop moves its
\* cursor past its update_id and stays in the batch, and in both no handler
\* is invoked, no pass is started and nothing is handed to the event loop.
C15_UnknownKindDropped ==
    /\ [][wpc = "handling" /\ wpc' # "handling" /\ Kindless(wreq) =>
            /\ wpc' = "idle" /\ wstatus' = 200
            /\ calls' = calls /\ disp' = disp /\ loopQueue' = loopQueue]_vars
    /\ [][bidx' = bidx + 1 /\ HasUpdateId(upd') /\ Kindless(upd') =>
            /\ offset' > GetItem(upd', "update_id").i /\ ppc' = "batch"
            /\ calls' = calls /\ disp' = disp /\ loopQueue' = loopQueue]_vars

\* both threads have dropped an update without kind
C15_Witness ==
    /\ wpc = "idle" /\ wstatus = 200 /\ Kindless(wreq)
    /\ ppc = "batch" /\ Kindless(upd) /\ HasUpdateId(upd)
    /\ offset > GetItem(upd, "update_id").i

\* thread t calls an async handler in this step
AsyncCallBy(t) ==
    /\ Len(calls'[t]) = Len(calls[t]) + 1
    /\ calls'[t][Len(calls'[t])].fn = "h_async"

QueueIds(queue) == {queue[j].id : j \in 1..Len(queue)}

\* the most coroutines the loop holds unstarted: the backlog a request or a
\* fetched update is taken at, and the one either thread may add to it
QueueBound == MaxBacklog + 2

\* C18: with the webhook thread and the polling thread dispatching at the
\* same time, every coroutine either of them hands over is on the event
\* loop exactly once and is in the end started there: a call of an async
\* handler adds just its coroutine at the end of what the loop holds, what
\* the loop holds changes otherwise only by the loop starting the oldest,
\* no coroutine is held twice, and every coroutine held is started.
C18_EverySubmissionRunsOnce ==
    /\ [][\A t \in Threads : AsyncCallBy(t) =>
            \E e \in {Coroutine("h_async", t, loopQueue)} :
               loopQueue' = Append(loopQueue, e) /\ e.id \notin QueueIds(loopQueue)]_vars
    /\ [][loopQueue' # loopQueue /\ ~(\E t \in Threads : AsyncCallBy(t)) =>
            Len(loopQueue) > 0 /\ loopQueue' = Tail(loopQueue)]_vars
    /\ [](/\ Len(loopQueue) <= QueueBound
          /\ \A j, l \in 1..Len(loopQueue) : loopQueue[j].id = loopQueue[l].id => j = l)
    /\ \A i \in 0..QueueBound :
          (i \in QueueIds(loopQueue)) ~> (i \notin QueueIds(loopQueue))

\* both threads are in a pass and the loop holds a coroutine of each
C18_Witness ==
    /\ wpc = "dispatch" /\ ppc = "dispatch"
    /\ \E j, l \in 1..Len(loopQueue) :
          loopQueue[j].by = "webhook" /\ loopQueue[l].by = "poll"

(***************************************************************************)
(* Properties of match_filter.                                             *)
(***************************************************************************)
\* every key of the filter is in the body and, under each, the filter's
\* value is a mapping that the body's value matches in this way, or the
\* two values are equal
RECURSIVE StructMatch(_, _)
StructMatch(filt, body) ==
    \A j \in 1..Len(filt.keys) :
       /\ \E l \in 1..Len(body.keys) : body.keys[l] = filt.keys[j]
       /\ LET fv == filt.kids[j]
              bv == body.kids[CHOOSE l \in 1..Len(body.keys) : body.keys[l] = filt.keys[j]]
          IN \/ fv.t = "dict" /\ bv.t = "dict" /\ StructMatch(fv, bv)
             \/ PyEq(fv, bv)

\* C16: match_filter with a mapping filter and a mapping body succeeds if
\* and only if every key of the filter is in the body and, for each key,
\* the filter's value is a mapping that the body's value recursively
\* matches, or the two values are equal; a missing key fails the match.
C16_StructuralMatchIff ==
    fres # "unset" /\ ffilt.op = "dict" /\ IsDict(fbody) =>
        (fres = "T" <=> StructMatch(ffilt.d, fbody))

\* a match under a nested mapping that the body's value is not equal to
C16_Witness ==
    /\ fres = "T" /\ ffilt.op = "dict"
    /\ HasKey(ffilt.d, "a") /\ IsDict(GetItem(ffilt.d, "a"))
    /\ Len(GetItem(ffilt.d, "a").keys) = 1
    /\ GetItem(fbody, "a") # GetItem(ffilt.d, "a")

(***************************************************************************)
(* Properties of the registry.                                             *)
(***************************************************************************)
\* C17: the registry has an entry for every kind of the list from
\* construction on, empty at first; it changes only by one pair being put
\* at the end of one kind's sequence, the pairs already there, their order
\* and the sequences of the other kinds staying as they are.
C17_RegistryAppendOnly ==
    /\ \A k \in Kinds : handlers[k] = <<>>
    /\ [](DOMAIN handlers = Kinds)
    /\ [][handlers' # handlers =>
            \E k \in Kinds :
               /\ Len(handlers'[k]) = Len(handlers[k]) + 1
               /\ SubSeq(handlers'[k], 1, Len(handlers[k])) = handlers[k]
               /\ \A o \in Kinds \ {k} : handlers'[o] = handlers[o]]_vars

\* two different pairs registered for one kind, and a pass under way
C17_Witness ==
    /\ Len(handlers["message"]) = 2
    /\ handlers["message"][1] # handlers["message"][2]
    /\ wpc = "dispatch"

(***************************************************************************)
(* Properties of the hand-over to the event loop.                          *)
(***************************************************************************)
\* C19: for an async handler, the part of the body before its first
\* suspension point runs on the dispatching thread, before the dispatcher
\* goes on to the next pair; only the rest runs on the event loop.  (Every
\* call of the async handler has run that part when it is over, and every
\* coroutine handed to the loop is at its first suspension point.)
C19_PrefixRunsOnDispatcher ==
    /\ \A t \in Threads : \A j \in 1..Len(calls[t]) :
          calls[t][j].fn = "h_async" => calls[t][j].ran = "to_first_await"
    /\ \A j \in 1..Len(loopQueue) : loopQueue[j].at = "first_await"

(***************************************************************************)
(* Properties of the for loop over a fetched batch.                        *)
(***************************************************************************)
\* C20: the polling loop dispatches the updates of a batch one at a time, in
\* the order of the batch, on the polling thread.  It goes from one update
\* to the next, one place further in the batch, only when the pass over the
\* handlers of the update before is over; every invocation, and every
\* coroutine handed to the event loop, is made by the polling thread while
\* it dispatches the update at hand, with the body of that update.
C20_BatchInSequence ==
    [][/\ (bidx' # bidx \/ upd' # upd) =>
            /\ PassDone("poll")
            /\ bidx' = bidx + 1 \/ (bidx' = 0 /\ ppc = "request")
       /\ Len(calls'["poll"]) > Len(calls["poll"]) =>
            /\ ppc = "dispatch" /\ upd' = upd /\ bidx' = bidx
            /\ calls'["poll"][Len(calls'["poll"])].body =
                   WebhookData(upd, extract_update_type(upd))
       /\ Len(loopQueue') > Len(loopQueue) =>
            /\ ppc = "dispatch" /\ upd' = upd /\ bidx' = bidx
            /\ Len(calls'["poll"]) > Len(calls["poll"])
            /\ loopQueue'[Len(loopQueue')].by = "poll"
            /\ loopQueue'[Len(loopQueue')].fn =
                   calls'["poll"][Len(calls'["poll"])].fn]_vars

\* the second update of a batch dispatched to both its handlers while the
\* coroutine made for the first update is still queued on the event loop
C20_Witness ==
    /\ bidx = 2 /\ ppc = "dispatch" /\ PassDone("poll")
    /\ Len(calls["poll"]) = 2
    /\ Len(loopQueue) = 2
    /\ \A j \in 1..2 : loopQueue[j].by = "poll"

(***************************************************************************)
(* Properties of the list a pass goes over.                                *)
(***************************************************************************)
\* C21: a pass works on a snapshot of the registry of its kind, taken when
\* it starts.  The list a pass goes over changes only when a new pass
\* starts, and is then the whole registry of the kind at that time, pairs
\* registered after earlier passes began included; every invocation of a
\* pass is of a pair of its list, so that the pass makes no more calls than
\* its list has pairs; and a pair registered while the pass runs comes
\* after the list and is not in it.
C21_PassOnSnapshot ==
    /\ [][\A t \in Threads :
            /\ (\/ disp'[t].snap # disp[t].snap
                \/ disp'[t].kind # disp[t].kind
                \/ disp'[t].idx < disp[t].idx) =>
                    /\ PassDone(t)
                    /\ disp'[t].idx = 1
                    /\ disp'[t].snap = handlers[disp'[t].kind]
            /\ Len(calls'[t]) > Len(calls[t]) =>
                    /\ disp[t].idx <= Len(disp[t].snap)
                    /\ disp'[t].snap = disp[t].snap
                    /\ calls'[t][Len(calls'[t])].fn =
                           disp[t].snap[disp[t].idx].fn.name]_vars
    /\ [](\A t \in Threads :
            /\ Len(calls[t]) < disp[t].idx
            /\ disp[t].idx <= Len(disp[t].snap) + 1
            /\ disp[t].kind \in Kinds =>
                   IsPrefix(disp[t].snap, handlers[disp[t].kind]))

\* a pass that is over, having invoked the one pair of its list, while the
\* registry of its kind has a second pair, registered after the pass began
C21_Witness ==
    /\ wpc = "dispatch" /\ PassDone("webhook")
    /\ Len(disp["webhook"].snap) = 1
    /\ Len(calls["webhook"]) = 1
    /\ Len(handlers[disp["webhook"].kind]) = 2

=============================================================================
